---- MODULE Spec2Model ----
(***************************************************************************)
(* Quote retrieval and caching core of the Dynamic Portfolio Dashboard.    *)
(*                                                                         *)
(* The model holds the process-wide cache (src/lib/cache.ts), the rate     *)
(* limiter of the Yahoo adapter, and the route handlers that share them:   *)
(*   "cmp"        src/app/api/cmp/route.ts        (retries, 429 cooldown)  *)
(*   "cmpOpt"     the cmp variant with ?cache=    (src/unnamed/part_000)   *)
(*   "cmpSimple"  the single-attempt cmp variant  (src/app/_app.tsx:42)    *)
(*   "yahoo"      the rate-limited adapter        (src/unnamed/part_001)   *)
(*   "yahooPlain" the plain adapter       (src/app/api/yahoo/route.ts)     *)
(*   "historical" src/app/api/historical/route.ts                          *)
(* and the dashboard component that calls them (PortfolioTable.tsx).       *)
(* Handlers are async functions on one JavaScript event loop: an action is *)
(* the code that runs between two awaits, so it is atomic.  Time is the    *)
(* value of Date.now() in milliseconds.                                    *)
(***************************************************************************)
EXTENDS Integers, FiniteSets, Sequences, TLC

VARIABLES now, ticks, cache, rateLimit, req, lib, dash

vars == <<now, ticks, cache, rateLimit, req, lib, dash>>

(***************************************************************************)
(* Bounds of the model.                                                    *)
(***************************************************************************)
\* Date.now() when the process starts (any value far from 0).
StartTime == 10000
\* How many times the environment lets time pass on its own (Tick).
MaxTicks == 1

(***************************************************************************)
(* Program constants.                                                      *)
(***************************************************************************)
CMP_CACHE_DURATION == 300000
CMP_MAX_RETRIES == 2
CMP_RETRY_DELAY == 2000
CMP_RATE_LIMIT_WAIT == 5000
OPT_CACHE_DURATION == 300000
OPT_MAX_RETRIES == 1
OPT_RETRY_DELAY == 1000
SIMPLE_CACHE_DURATION == 900000
HIST_CACHE_DURATION == 86400000
minInterval == 1000
YAHOO_TIMEOUT == 10000
YAHOO_RATE_LIMIT_WAIT == 5000

(***************************************************************************)
(* JavaScript values.  A value of unknown type (a price taken from JSON, a *)
(* field that may be missing) is a record [t, v]; t is what typeof and the *)
(* comparisons with undefined/null distinguish.  Str(n) is a non-empty     *)
(* string; for lastUpdated, Str(n) is new Date(n).toISOString().           *)
(***************************************************************************)
Undef == [t |-> "undefined", v |-> 0]
Null == [t |-> "null", v |-> 0]
Num(n) == [t |-> "number", v |-> n]
Str(n) == [t |-> "string", v |-> n]

\* JavaScript truthiness of such a value (if (x), x && y, x || y).
Truthy(x) == \/ x.t = "number" /\ x.v # 0
             \/ x.t = "string"

\* A string-typed field that is missing.
Undefined == "undefined"

\* s || 'USD' for a string field s.
OrUSD(s) == IF s = Undefined THEN "USD" ELSE s

\* A test for undefined only: searchParams.get gives null or '', never that.
SymbolIsUndefined(symbol) == FALSE

\* !symbol : null (parameter missing) and '' are both falsy; both are "" here.
SymbolMissing(symbol) == symbol = ""

(***************************************************************************)
(* Inputs.                                                                 *)
(***************************************************************************)
Reqs == {"r1", "r2"}
Symbols == {"", "ACME"}
Ranges == {"1mo", "1y"}
Series == {"bars1", "bars2"}
\* What chart.result[0].meta.regularMarketPrice can be in the upstream JSON.
PriceVals == {Undef, Null, Str(0), Num(-5), Num(0), Num(100)}

PriceKey(symbol) == <<"price", symbol>>
\* One key for all ranges of a symbol.
HistKeyOfSymbol(symbol, range) == <<"historical", symbol, "1mo">>

HistKey(symbol, range) == <<"historical", symbol, range>>

(***************************************************************************)
(* src/lib/cache.ts.  cache is the Record<string, CacheItem>; an item      *)
(* also remembers when and with which ttl it was written (history only).   *)
(***************************************************************************)
\* The value getFromCache returns when it returns null.
NullData == [nodata |-> TRUE]

\* The test with >= : an item is dropped at its expiry time already.
ExpiredAtExpiry(item, t) == t >= item.expiry

Expired(item, t) == t > item.expiry

EmptyCache == [k \in {} |-> NullData]

\* getFromCache(key): the value returned.
GetFromCache(c, key, t) ==
    IF key \notin DOMAIN c THEN NullData
    ELSE IF Expired(c[key], t) THEN NullData
    ELSE c[key].data

\* getFromCache(key): the cache it leaves (an expired item is deleted).
CacheAfterGet(c, key, t) ==
    IF key \in DOMAIN c /\ Expired(c[key], t)
    THEN [k \in DOMAIN c \ {key} |-> c[k]]
    ELSE c

\* A set that keeps the item the key already has.
SetToCacheIfAbsent(c, key, data, ttl, t) ==
    [k \in DOMAIN c \cup {key} |->
        IF k = key /\ key \notin DOMAIN c
        THEN [data |-> data, expiry |-> t + ttl, writtenAt |-> t, ttl |-> ttl]
        ELSE c[k]]

\* setToCache(key, data, ttl).
SetToCache(c, key, data, ttl, t) ==
    [k \in DOMAIN c \cup {key} |->
        IF k = key
        THEN [data |-> data, expiry |-> t + ttl, writtenAt |-> t, ttl |-> ttl]
        ELSE c[k]]

\* A sweep that also removes the items that reach their expiry just now.
CleanupExpiredAtExpiry(c, t) ==
    [k \in {x \in DOMAIN c : ~(t >= c[x].expiry)} |-> c[k]]

\* cleanupExpired(): the cache it leaves; it returns the number removed.
CleanupExpired(c, t) ==
    [k \in {x \in DOMAIN c : ~(t > c[x].expiry)} |-> c[k]]


\* cache[key], or NoItem when the cache has no such key.
NoItem == [noitem |-> TRUE]

ItemAt(c, key) == IF key \in DOMAIN c THEN c[key] ELSE NoItem

(***************************************************************************)
(* The two cache functions called directly, by any caller, in any order,   *)
(* as time passes, with the hourly cleanupExpired in between.  lib records *)
(* the calls: how many were made, the last one (op, key, the time, what it *)
(* returned, for a sweep how many items it removed), and for each key the  *)
(* arguments and the time of the last setToCache.  lib.shadow is the cache *)
(* of the same calls made in a process where the sweep never runs,         *)
(* lib.shadowResult what the last getFromCache returned there, and         *)
(* lib.swept whether that get asked for a key only the shadow still held.  *)
(***************************************************************************)
\* Bounds of the direct use: calls made, milliseconds that pass.
MaxLibCalls == 4
MaxLibTime == 3

LibKeys == {PriceKey("ACME"), HistKey("ACME", "1mo")}
LibValues == {[price |-> Num(100), lastUpdated |-> Str(0), currency |-> "USD",
               source |-> Undefined],
              [series |-> "bars1"]}
LibTtls == {1, 2}

NoCalls ==
    [n |-> 0, op |-> "none", key |-> <<>>, at |-> 0, result |-> NullData,
     lastSet |-> [k \in LibKeys |-> NoItem],
     removed |-> 0, shadow |-> EmptyCache, shadowResult |-> NullData,
     swept |-> FALSE]

LibSet(key, data, ttl) ==
    /\ lib.n < MaxLibCalls
    /\ cache' = SetToCache(cache, key, data, ttl, now)
    /\ lib' = [n |-> lib.n + 1, op |-> "set", key |-> key, at |-> now,
               result |-> NullData,
               lastSet |-> [lib.lastSet EXCEPT
                               ![key] = [data |-> data, ttl |-> ttl, at |-> now]],
               removed |-> 0,
               shadow |-> SetToCache(lib.shadow, key, data, ttl, now),
               shadowResult |-> NullData, swept |-> FALSE]
    /\ UNCHANGED <<now, ticks, rateLimit, req, dash>>

LibGet(key) ==
    /\ lib.n < MaxLibCalls
    /\ cache' = CacheAfterGet(cache, key, now)
    /\ lib' = [lib EXCEPT !.n = @ + 1, !.op = "get", !.key = key, !.at = now,
                          !.result = GetFromCache(cache, key, now),
                          !.removed = 0,
                          !.shadow = CacheAfterGet(lib.shadow, key, now),
                          !.shadowResult = GetFromCache(lib.shadow, key, now),
                          !.swept = key \in DOMAIN lib.shadow \ DOMAIN cache]
    /\ UNCHANGED <<now, ticks, rateLimit, req, dash>>

\* The setInterval callback: cleanupExpired().
LibSweep ==
    /\ lib.n < MaxLibCalls
    /\ cache' = CleanupExpired(cache, now)
    /\ lib' = [lib EXCEPT !.n = @ + 1, !.op = "sweep", !.key = <<>>, !.at = now,
                          !.result = NullData,
                          !.removed = Cardinality(DOMAIN cache)
                                         - Cardinality(DOMAIN CleanupExpired(cache, now)),
                          !.shadowResult = NullData, !.swept = FALSE]
    /\ UNCHANGED <<now, ticks, rateLimit, req, dash>>

LibPass ==
    /\ now < StartTime + MaxLibTime
    /\ now' = now + 1
    /\ UNCHANGED <<ticks, cache, rateLimit, req, lib, dash>>

(***************************************************************************)
(* HTTP responses (NextResponse.json).  A field the body does not carry is *)
(* Undef / Undefined; cached is read by the dashboard as                   *)
(* priceData.cached || false, so a missing cached is FALSE.                *)
(***************************************************************************)
NoResp == [status |-> 0]

EmptyBody ==
    [status |-> 200, price |-> Undef, lastUpdated |-> Undef,
     currency |-> Undefined, cached |-> FALSE, source |-> Undefined,
     warning |-> Undefined, error |-> Undefined, details |-> Undefined,
     symbol |-> Undefined, data |-> Undefined]

\* { error: 'Symbol parameter is required' }, status 400 (every handler).
BadRequest ==
    [EmptyBody EXCEPT !.status = 400, !.error = "Symbol parameter is required"]

(***************************************************************************)
(* What the Yahoo chart endpoint can do with one request.                  *)
(***************************************************************************)
UpFail(k, s) == [kind |-> k, status |-> s, price |-> Undef, currency |-> Undefined]

Upstream ==
    {UpFail("neterr", 0), UpFail("timeout", 0), UpFail("http", 429),
     UpFail("http", 500), UpFail("badjson", 200), UpFail("charterr", 200)}
    \cup {[kind |-> "http", status |-> 200, price |-> p, currency |-> Undefined] :
             p \in PriceVals}
    \cup {[kind |-> "http", status |-> 200, price |-> Num(100), currency |-> "INR"]}

\* No upstream request has settled.
NoUpstream == UpFail("none", 0)

\* error.message of the Error the adapter's try block ends with.
UpstreamError(u) ==
    CASE u.kind = "neterr" -> "fetch failed"
      [] u.kind = "timeout" -> "This operation was aborted"
      [] u.kind = "badjson" -> "Unexpected token in JSON"
      [] u.kind = "charterr" -> "No data found, symbol may be delisted"
      [] u.kind = "http" /\ u.status = 429 ->
             "Yahoo Finance API request failed with status 429"
      [] u.kind = "http" /\ u.status = 500 ->
             "Yahoo Finance API request failed with status 500"
      [] OTHER -> "Invalid response format from Yahoo Finance"

\* A test that takes a body without the price field too.
YahooHasPriceOrNot(u) == TRUE

\* if (data.chart?.result?.[0]?.meta?.regularMarketPrice !== undefined)
YahooHasPrice(u) == u.price # Undef

\* The response of the rate-limited adapter to upstream outcome u.
YahooResponse(u, symbol) ==
    IF u.kind = "http" /\ u.status = 200 /\ YahooHasPrice(u)
    THEN [EmptyBody EXCEPT !.price = u.price, !.currency = OrUSD(u.currency)]
    ELSE [EmptyBody EXCEPT
            !.status = CASE u.kind = "timeout" -> 504
                         [] u.kind = "http" /\ u.status = 429 -> 429
                         [] OTHER -> 500,
            !.error = CASE u.kind = "timeout" -> "Request to Yahoo Finance timed out"
                        [] u.kind = "http" /\ u.status = 429 ->
                               "Rate limited by Yahoo Finance. Please try again later."
                        [] OTHER -> UpstreamError(u),
            !.symbol = symbol]

\* The response of the plain adapter (no limiter, no timeout, truthiness test).
YahooPlainResponse(u) ==
    IF u.kind = "http" /\ u.status = 200 /\ Truthy(u.price)
    THEN [EmptyBody EXCEPT !.price = u.price, !.currency = u.currency]
    ELSE [EmptyBody EXCEPT
            !.status = 500,
            !.error = "Failed to fetch stock price",
            !.details = IF u.kind = "http" /\ u.status # 200
                        THEN "Yahoo Finance API request failed"
                        ELSE UpstreamError(u)]

(***************************************************************************)
(* What `await fetch(.../api/yahoo?symbol=...)` followed by                *)
(* `await yahooRes.json()` can give a cmp handler: the fetch rejects, the  *)
(* body is not JSON, or one of the adapter's responses arrives.            *)
(***************************************************************************)
FetchThrows == [kind |-> "throw", resp |-> NoResp]
Fetched(resp) == [kind |-> "resp", resp |-> resp]

FetchOutcomes(symbol) ==
    {FetchThrows}
    \cup {Fetched(YahooResponse(u, symbol)) : u \in Upstream}
    \cup {Fetched(YahooPlainResponse(u)) : u \in Upstream \ {UpFail("timeout", 0)}}

\* yahooRes.ok
Ok(resp) == resp.status >= 200 /\ resp.status <= 299

\* The attempt obtained a live quote: a 2xx answer with a numeric price.
LiveQuote(o) == o.kind = "resp" /\ Ok(o.resp) /\ o.resp.price.t = "number"

(***************************************************************************)
(* The dashboard, src/components/PortfolioTable.tsx: the state of the      *)
(* component (loading, error, stocks), its own instance of the cache       *)
(* module (the browser's), and the progress of fetchData: the request for  *)
(* the portfolio, then for each holding a timer (index > 0), the price and *)
(* fundamentals requests, and the row made of their answers.  A holding    *)
(* also remembers when its requests were sent and what answered them.      *)
(***************************************************************************)
\* How many times fetchData runs.
MaxRuns == 2

DASH_CACHE_DURATION == 900000
HOLDING_DELAY == 500
REFRESH_INTERVAL == 15000

\* The indices of portfolioData.
Holdings == {0, 1, 2}

PortfolioKey == <<"portfolio">>

NoRow == [norow |-> TRUE]

\* What answers fetch('/api/portfolio') followed by res.json().
PortfolioOutcomes == {"reject", "notok", "badjson", "ok"}

\* What answers fetch(`/api/cmp?symbol=...`) followed by priceRes.json().
PriceOutcomes ==
    {FetchThrows,
     Fetched([EmptyBody EXCEPT !.price = Num(100), !.lastUpdated = Str(0),
                               !.currency = "USD", !.cached = FALSE]),
     Fetched([EmptyBody EXCEPT !.price = Num(250), !.lastUpdated = Str(0),
                               !.currency = "USD", !.cached = TRUE])}
    \cup {Fetched([EmptyBody EXCEPT !.status = 500,
                                     !.error = "Failed to fetch data",
                                     !.details = "fetch failed",
                                     !.symbol = "ACME"])}

\* What answers fetch(`/api/fundamentals?symbol=...`) followed by
\* fundamentalsRes.json(); the status of the response is not looked at.
FundOutcomes == {"reject", "badjson", "json"}

NoOutcome == [kind |-> "none", resp |-> NoResp]

IdleHolding ==
    [pc |-> "none", wakeAt |-> 0, sentAt |-> 0, po |-> NoOutcome, fo |-> "none",
     row |-> NoRow]

DashInit ==
    [pc |-> "idle", loading |-> TRUE, error |-> "null",
     stocks |-> [h \in Holdings |-> NoRow],
     hold |-> [h \in Holdings |-> IdleHolding],
     runs |-> 0, startedAt |-> 0, errorBefore |-> "null", completed |-> FALSE,
     cache |-> EmptyCache]

(***************************************************************************)
(* Requests.  A slot holds one request: its handler (kind), its query      *)
(* parameters, the handler's local variables, where it is suspended (pc),  *)
(* its response, and a record of what it did (dispatches, reads, writes,   *)
(* ttlUsed, startedAt, entryAtStart, sawDone, dispatchedAt, dispatchSeq:   *)
(* the rank of its dispatch among the adapter's dispatches; fetchedAt:     *)
(* when the upstream produced the quote the call stored, some time between *)
(* the dispatch of the fetch and its return) and of what                   *)
(* it was given (upstream: the outcome of the adapter's upstream request;  *)
(* live: the price of the live quote an attempt obtained).                 *)
(***************************************************************************)
IdleReq ==
    [kind |-> "none", symbol |-> "", useCache |-> TRUE, range |-> "1mo",
     pc |-> "idle", attempt |-> 0, cachedData |-> NullData,
     lastError |-> "null", wakeAt |-> 0, resp |-> NoResp,
     dispatches |-> 0, reads |-> 0, writes |-> 0, ttlUsed |-> 0,
     startedAt |-> 0, entryAtStart |-> NoItem, sawDone |-> {},
     dispatchedAt |-> 0, dispatchSeq |-> 0, upstream |-> NoUpstream,
     live |-> Undef, fetchedAt |-> 0]

Init ==
    /\ now = StartTime
    /\ ticks = 0
    /\ cache = EmptyCache
    /\ rateLimit = [lastRequestTime |-> 0]
    /\ req = [r \in Reqs |-> IdleReq]
    /\ lib = NoCalls
    /\ dash = DashInit

\* The request as it is when its handler is entered.
Entered(r, kind, symbol, useCache, range, key) ==
    [IdleReq EXCEPT !.kind = kind, !.symbol = symbol, !.useCache = useCache,
                    !.range = range, !.startedAt = now,
                    !.entryAtStart = ItemAt(cache, key),
                    !.sawDone = {q \in Reqs : req[q].pc = "done"}]

\* The request has called setToCache with this ttl.
Wrote(q, ttl) == [q EXCEPT !.writes = @ + 1, !.ttlUsed = ttl]

\* The handler returns resp: its local variables are gone.
Respond(q, resp) ==
    [q EXCEPT !.pc = "done", !.resp = resp, !.attempt = 0,
              !.cachedData = NullData, !.lastError = "null", !.wakeAt = 0]

(***************************************************************************)
(* The passage of time.  A timer never fires early and may fire late, and  *)
(* due timers fire in the order of their due times.  Tick is a short       *)
(* latency of the event loop or the network; Quiet is a long period in     *)
(* which no request is being served; a pending setTimeout firing (Due)     *)
(* brings the clock to its due time when it is still ahead.                *)
(***************************************************************************)
ShortJumps == {1, minInterval}
LongJumps == {CMP_CACHE_DURATION, CMP_CACHE_DURATION + 1, HIST_CACHE_DURATION + 1}

\* A setTimeout of the request is pending (for "upstream", the abort timer).
Sleeping(q) == q.pc \in {"backoff", "cooldown", "rlwait", "upstream", "cooldown429"}

InFlight(q) == q.pc \notin {"idle", "done"}

Tick ==
    /\ ticks < MaxTicks
    /\ \E r \in Reqs : req[r].kind = "yahoo"
    /\ \E r \in Reqs : req[r].pc # "done"
    /\ \E d \in ShortJumps : now' = now + d
    /\ ticks' = ticks + 1
    /\ UNCHANGED <<cache, rateLimit, req, lib, dash>>

Quiet ==
    /\ ticks < MaxTicks
    /\ \A r \in Reqs : ~InFlight(req[r])
    /\ \E r \in Reqs : req[r].pc = "done"
    /\ \E r \in Reqs : req[r].pc = "idle"
    /\ \E d \in LongJumps : now' = now + d
    /\ ticks' = ticks + 1
    /\ UNCHANGED <<cache, rateLimit, req, lib, dash>>

\* The setTimeout of request r is the next one to fire.
Due(r) ==
    /\ Sleeping(req[r])
    /\ \A q \in Reqs : Sleeping(req[q]) => req[r].wakeAt <= req[q].wakeAt

\* Date.now() when it fires.
FireTime(r) == IF now < req[r].wakeAt THEN req[r].wakeAt ELSE now

(***************************************************************************)
(* Which requests the model lets overlap: requests to the adapter overlap  *)
(* with each other; a request to another handler is served alone.  Slots   *)
(* are taken in order.                                                     *)
(***************************************************************************)
Earlier(r) == IF r = "r2" THEN {"r1"} ELSE {}

MayEnter(r, kind) ==
    /\ req[r].pc = "idle"
    /\ \A q \in Earlier(r) : req[q].pc # "idle"
    /\ \A q \in Reqs : InFlight(req[q]) => kind = "yahoo" /\ req[q].kind = "yahoo"

(***************************************************************************)
(* GET /api/cmp, src/app/api/cmp/route.ts.                                 *)
(***************************************************************************)
\* isValidCachedData(obj) inside createCachedResponse.
CmpIsValidCachedData(data) ==
    /\ data # NullData
    /\ data.price.t = "number"
    /\ data.lastUpdated.t = "string"

\* createCachedResponse(data), for data that is valid.
CmpCreateCachedResponse(data) ==
    [EmptyBody EXCEPT !.price = data.price, !.lastUpdated = data.lastUpdated,
                      !.currency = OrUSD(data.currency), !.cached = TRUE]

\* A test that takes no body.
CmpPriceRefused(price) == FALSE

\* if (data.price !== undefined)
CmpPriceAccepted(price) == price # Undef

\* The two error responses of the handler.
CmpError500(q) ==
    [EmptyBody EXCEPT !.status = 500, !.error = "Failed to fetch data",
                      !.details = IF q.lastError = "null" THEN "Unknown error"
                                  ELSE q.lastError,
                      !.symbol = q.symbol]

CmpError503(q) ==
    [EmptyBody EXCEPT !.status = 503,
                      !.error = "Failed to fetch stock price after multiple attempts",
                      !.details = IF q.lastError = "null" THEN "Unknown error"
                                  ELSE q.lastError,
                      !.symbol = q.symbol]

\* The loop with the test attempt <= MAX_RETRIES + 1.
CmpLoopOneMore(q, a, t) ==
    IF a <= CMP_MAX_RETRIES + 1
    THEN IF a > 0
         THEN [q EXCEPT !.attempt = a, !.pc = "backoff",
                        !.wakeAt = t + CMP_RETRY_DELAY * a]
         ELSE [q EXCEPT !.attempt = a, !.pc = "fetch", !.dispatches = @ + 1,
                        !.dispatchedAt = t]
    ELSE Respond([q EXCEPT !.attempt = a], CmpError503(q))

\* The head of the for loop, entered with attempt = a at time t (attempt <=
\* MAX_RETRIES is the loop test): sleep RETRY_DELAY * attempt when attempt > 0,
\* else fetch.
CmpLoop(q, a, t) ==
    IF a <= CMP_MAX_RETRIES
    THEN IF a > 0
         THEN [q EXCEPT !.attempt = a, !.pc = "backoff",
                        !.wakeAt = t + CMP_RETRY_DELAY * a]
         ELSE [q EXCEPT !.attempt = a, !.pc = "fetch", !.dispatches = @ + 1,
                        !.dispatchedAt = t]
    ELSE Respond([q EXCEPT !.attempt = a], CmpError503(q))

\* A catch block that reads the cache again before each retry.
CmpCatchRereading(q, msg, t) ==
    LET e == [q EXCEPT !.lastError = msg] IN
    IF e.attempt = CMP_MAX_RETRIES
    THEN IF CmpIsValidCachedData(e.cachedData)
         THEN Respond(e, [CmpCreateCachedResponse(e.cachedData) EXCEPT
                             !.warning = "Using cached data due to API failure",
                             !.error = msg])
         ELSE Respond(e, CmpError500(e))
    ELSE CmpLoop([e EXCEPT !.reads = @ + 1], e.attempt + 1, t)

\* The catch block, entered with error message msg.
CmpCatch(q, msg, t) ==
    LET e == [q EXCEPT !.lastError = msg] IN
    IF e.attempt = CMP_MAX_RETRIES
    THEN IF CmpIsValidCachedData(e.cachedData)
         THEN Respond(e, [CmpCreateCachedResponse(e.cachedData) EXCEPT
                             !.warning = "Using cached data due to API failure",
                             !.error = msg])
         ELSE Respond(e, CmpError500(e))
    ELSE CmpLoop(e, e.attempt + 1, t)

CmpStart(r, symbol) ==
    /\ MayEnter(r, "cmp")
    /\ LET key == PriceKey(symbol)
           q == Entered(r, "cmp", symbol, TRUE, "1mo", key)
           cachedData == GetFromCache(cache, key, now)
           c == [q EXCEPT !.cachedData = cachedData, !.reads = @ + 1]
       IN IF SymbolMissing(symbol)
          THEN /\ req' = [req EXCEPT ![r] = Respond(q, BadRequest)]
               /\ UNCHANGED cache
          ELSE /\ cache' = CacheAfterGet(cache, key, now)
               /\ req' = [req EXCEPT ![r] =
                            IF CmpIsValidCachedData(cachedData)
                            THEN Respond(c, CmpCreateCachedResponse(cachedData))
                            ELSE CmpLoop(c, 0, now)]
    /\ UNCHANGED <<now, ticks, rateLimit, lib, dash>>

CmpFetchReturn(r, o) ==
    /\ req[r].kind = "cmp"
    /\ req[r].pc = "fetch"
    /\ \E f \in {req[r].dispatchedAt, now} :
       LET stored == o.kind = "resp" /\ Ok(o.resp) /\ CmpPriceAccepted(o.resp.price)
           q == [req[r] EXCEPT !.live = IF LiveQuote(o) THEN o.resp.price ELSE @,
                               !.fetchedAt = IF stored THEN f ELSE @]
           key == PriceKey(q.symbol)
           result == [price |-> o.resp.price, lastUpdated |-> Str(now),
                      currency |-> OrUSD(o.resp.currency), source |-> Undefined]
       IN CASE o.kind = "throw" ->
                 /\ req' = [req EXCEPT ![r] = CmpCatch(q, "fetch failed", now)]
                 /\ UNCHANGED cache
            [] o.kind = "resp" /\ ~Ok(o.resp) /\ o.resp.status = 429 ->
                 /\ req' = [req EXCEPT ![r] =
                              [q EXCEPT !.pc = "cooldown",
                                        !.wakeAt = now + CMP_RATE_LIMIT_WAIT]]
                 /\ UNCHANGED cache
            [] o.kind = "resp" /\ ~Ok(o.resp) /\ o.resp.status # 429 ->
                 /\ req' = [req EXCEPT ![r] =
                              CmpCatch(q, "Yahoo API request failed with status", now)]
                 /\ UNCHANGED cache
            [] o.kind = "resp" /\ Ok(o.resp) /\ CmpPriceAccepted(o.resp.price) ->
                 /\ cache' = SetToCache(cache, key, result, CMP_CACHE_DURATION, now)
                 /\ req' = [req EXCEPT ![r] =
                              Respond(Wrote(q, CMP_CACHE_DURATION),
                                      [EmptyBody EXCEPT
                                          !.price = result.price,
                                          !.lastUpdated = result.lastUpdated,
                                          !.currency = OrUSD(result.currency),
                                          !.cached = FALSE])]
            [] OTHER ->
                 /\ req' = [req EXCEPT ![r] =
                              CmpCatch(q, "Invalid response format from Yahoo Finance", now)]
                 /\ UNCHANGED cache
    /\ UNCHANGED <<now, ticks, rateLimit, lib, dash>>

\* The retry delay has elapsed: the fetch of this attempt is issued.
CmpBackoffWake(r) ==
    /\ req[r].kind = "cmp"
    /\ req[r].pc = "backoff"
    /\ Due(r)
    /\ now' = FireTime(r)
    /\ req' = [req EXCEPT ![r] = [@ EXCEPT !.pc = "fetch", !.dispatches = @ + 1,
                                           !.dispatchedAt = FireTime(r)]]
    /\ UNCHANGED <<ticks, cache, rateLimit, lib, dash>>

\* The 5 s wait after a 429 has elapsed: `continue`.
CmpCooldownWake(r) ==
    /\ req[r].kind = "cmp"
    /\ req[r].pc = "cooldown"
    /\ Due(r)
    /\ now' = FireTime(r)
    /\ req' = [req EXCEPT ![r] = CmpLoop(req[r], req[r].attempt + 1, FireTime(r))]
    /\ UNCHANGED <<ticks, cache, rateLimit, lib, dash>>

(***************************************************************************)
(* GET /api/cmp, the variant with the cache option (src/unnamed/part_000). *)
(***************************************************************************)
\* if (cachedData && cachedData.price && cachedData.lastUpdated)
OptIsValidCachedData(data) ==
    /\ data # NullData
    /\ Truthy(data.price)
    /\ Truthy(data.lastUpdated)

\* The body of the fast-path response.
OptCachedResponse(data) ==
    [EmptyBody EXCEPT !.price = data.price, !.lastUpdated = data.lastUpdated,
                      !.currency = OrUSD(data.currency),
                      !.source = IF data.source = Undefined THEN "cache"
                                 ELSE data.source,
                      !.cached = TRUE]

\* A test that takes any body.
OptPriceAcceptedAny(price) == TRUE

\* if (typeof data.price === 'number')
OptPriceAccepted(price) == price.t = "number"

\* The error body of the single-attempt variant, which names no symbol.
OptError500NoSymbol(q) ==
    [EmptyBody EXCEPT !.status = 500, !.error = "Failed to fetch stock price",
                      !.details = IF q.lastError = "null" THEN "Unknown error"
                                  ELSE q.lastError]

OptError500(q) ==
    [EmptyBody EXCEPT !.status = 500, !.error = "Failed to fetch stock price",
                      !.details = IF q.lastError = "null" THEN "Unknown error"
                                  ELSE q.lastError,
                      !.symbol = q.symbol]

OptError503(q) ==
    [EmptyBody EXCEPT !.status = 503, !.error = "Failed to fetch stock price",
                      !.details = IF q.lastError = "null" THEN "Unknown error"
                                  ELSE q.lastError,
                      !.symbol = q.symbol]

\* A loop that issues the retry at once, without the delay before it.
OptLoopNoWait(q, a, t) ==
    IF a <= OPT_MAX_RETRIES
    THEN [q EXCEPT !.attempt = a, !.pc = "fetch", !.dispatches = @ + 1,
                   !.dispatchedAt = t]
    ELSE Respond([q EXCEPT !.attempt = a], OptError503(q))

\* The head of the for loop, entered with attempt = a at time t.
OptLoop(q, a, t) ==
    IF a <= OPT_MAX_RETRIES
    THEN IF a > 0
         THEN [q EXCEPT !.attempt = a, !.pc = "backoff",
                        !.wakeAt = t + OPT_RETRY_DELAY * a]
         ELSE [q EXCEPT !.attempt = a, !.pc = "fetch", !.dispatches = @ + 1,
                        !.dispatchedAt = t]
    ELSE Respond([q EXCEPT !.attempt = a], OptError503(q))

\* The catch block: on the last attempt, if (cachedData) answers from it.
OptCatch(q, msg, t) ==
    LET e == [q EXCEPT !.lastError = msg] IN
    IF e.attempt = OPT_MAX_RETRIES
    THEN IF e.cachedData # NullData
         THEN Respond(e, [EmptyBody EXCEPT
                             !.price = e.cachedData.price,
                             !.lastUpdated = e.cachedData.lastUpdated,
                             !.currency = e.cachedData.currency,
                             !.source = e.cachedData.source,
                             !.cached = TRUE,
                             !.warning = "Using cached data due to API failure",
                             !.error = msg])
         ELSE Respond(e, OptError500(e))
    ELSE OptLoop(e, e.attempt + 1, t)

\* The handler is entered: the code up to the first await.
OptEnter(r, symbol, useCache) ==
    /\ LET key == PriceKey(symbol)
           q == Entered(r, "cmpOpt", symbol, useCache, "1mo", key)
           cachedData == GetFromCache(cache, key, now)
           c == [q EXCEPT !.cachedData = cachedData, !.reads = @ + 1]
       IN IF SymbolMissing(symbol)
          THEN /\ req' = [req EXCEPT ![r] = Respond(q, BadRequest)]
               /\ UNCHANGED cache
          ELSE IF useCache
          THEN /\ cache' = CacheAfterGet(cache, key, now)
               /\ req' = [req EXCEPT ![r] =
                            IF OptIsValidCachedData(cachedData)
                            THEN Respond(c, OptCachedResponse(cachedData))
                            ELSE OptLoop(c, 0, now)]
          ELSE /\ req' = [req EXCEPT ![r] = OptLoop(q, 0, now)]
               /\ UNCHANGED cache
    /\ UNCHANGED <<now, ticks, rateLimit, lib, dash>>

\* A request served while no other request is in flight.
OptStart(r, symbol, useCache) ==
    /\ MayEnter(r, "cmpOpt")
    /\ OptEnter(r, symbol, useCache)

\* A request that may arrive while another one is in flight.
OptStartOverlapping(r, symbol, useCache) ==
    /\ req[r].pc = "idle"
    /\ \A q \in Earlier(r) : req[q].pc # "idle"
    /\ OptEnter(r, symbol, useCache)

OptFetchReturn(r, o) ==
    /\ req[r].kind = "cmpOpt"
    /\ req[r].pc = "fetch"
    /\ \E f \in {req[r].dispatchedAt, now} :
       LET stored == o.kind = "resp" /\ Ok(o.resp) /\ OptPriceAccepted(o.resp.price)
           q == [req[r] EXCEPT !.live = IF LiveQuote(o) THEN o.resp.price ELSE @,
                               !.fetchedAt = IF stored THEN f ELSE @]
           key == PriceKey(q.symbol)
           result == [price |-> o.resp.price, lastUpdated |-> Str(now),
                      currency |-> OrUSD(o.resp.currency),
                      source |-> IF o.resp.source = Undefined THEN "unknown"
                                 ELSE o.resp.source]
       IN CASE o.kind = "throw" ->
                 /\ req' = [req EXCEPT ![r] = OptCatch(q, "fetch failed", now)]
                 /\ UNCHANGED cache
            [] o.kind = "resp" /\ ~Ok(o.resp) ->
                 /\ req' = [req EXCEPT ![r] =
                              OptCatch(q, "API request failed with status", now)]
                 /\ UNCHANGED cache
            [] o.kind = "resp" /\ Ok(o.resp) /\ OptPriceAccepted(o.resp.price) ->
                 /\ cache' = SetToCache(cache, key, result, OPT_CACHE_DURATION, now)
                 /\ req' = [req EXCEPT ![r] =
                              Respond(Wrote(q, OPT_CACHE_DURATION),
                                      [EmptyBody EXCEPT
                                          !.price = result.price,
                                          !.lastUpdated = result.lastUpdated,
                                          !.currency = result.currency,
                                          !.source = result.source,
                                          !.cached = FALSE,
                                          !.warning = o.resp.warning])]
            [] OTHER ->
                 /\ req' = [req EXCEPT ![r] =
                              OptCatch(q, "Invalid response format from data source", now)]
                 /\ UNCHANGED cache
    /\ UNCHANGED <<now, ticks, rateLimit, lib, dash>>

OptBackoffWake(r) ==
    /\ req[r].kind = "cmpOpt"
    /\ req[r].pc = "backoff"
    /\ Due(r)
    /\ now' = FireTime(r)
    /\ req' = [req EXCEPT ![r] = [@ EXCEPT !.pc = "fetch", !.dispatches = @ + 1,
                                           !.dispatchedAt = FireTime(r)]]
    /\ UNCHANGED <<ticks, cache, rateLimit, lib, dash>>

(***************************************************************************)
(* GET /api/cmp, the single-attempt variant (src/app/_app.tsx:42-102).     *)
(***************************************************************************)
SimpleError500(msg) ==
    [EmptyBody EXCEPT !.status = 500,
                      !.error = "Failed to fetch current market price",
                      !.details = msg, !.cached = FALSE]

SimpleStart(r, symbol) ==
    /\ MayEnter(r, "cmpSimple")
    /\ LET key == PriceKey(symbol)
           q == Entered(r, "cmpSimple", symbol, TRUE, "1mo", key)
           cachedData == GetFromCache(cache, key, now)
           c == [q EXCEPT !.reads = @ + 1]
       IN IF SymbolMissing(symbol)
          THEN /\ req' = [req EXCEPT ![r] = Respond(q, BadRequest)]
               /\ UNCHANGED cache
          ELSE /\ cache' = CacheAfterGet(cache, key, now)
               /\ req' = [req EXCEPT ![r] =
                            IF cachedData # NullData
                            THEN Respond(c, [EmptyBody EXCEPT
                                               !.price = cachedData.price,
                                               !.cached = TRUE,
                                               !.lastUpdated = Str(now)])
                            ELSE [c EXCEPT !.pc = "fetch", !.dispatches = @ + 1]]
    /\ UNCHANGED <<now, ticks, rateLimit, lib, dash>>

SimpleFetchReturn(r, o) ==
    /\ req[r].kind = "cmpSimple"
    /\ req[r].pc = "fetch"
    /\ LET q == req[r]
           key == PriceKey(q.symbol)
           data == [price |-> o.resp.price, lastUpdated |-> Undef,
                    currency |-> Undefined, source |-> Undefined]
       IN CASE o.kind = "throw" ->
                 /\ req' = [req EXCEPT ![r] = Respond(q, SimpleError500("fetch failed"))]
                 /\ UNCHANGED cache
            [] o.kind = "resp" /\ ~Ok(o.resp) ->
                 /\ req' = [req EXCEPT ![r] =
                              Respond(q, SimpleError500("Yahoo API request failed with status"))]
                 /\ UNCHANGED cache
            [] o.kind = "resp" /\ Ok(o.resp) /\ Truthy(o.resp.price) ->
                 /\ cache' = SetToCache(cache, key, data, SIMPLE_CACHE_DURATION, now)
                 /\ req' = [req EXCEPT ![r] =
                              Respond(Wrote(q, SIMPLE_CACHE_DURATION),
                                      [EmptyBody EXCEPT !.price = o.resp.price,
                                                        !.cached = FALSE,
                                                        !.lastUpdated = Str(now)])]
            [] OTHER ->
                 /\ req' = [req EXCEPT ![r] =
                              Respond(q, SimpleError500("Invalid response format from Yahoo Finance"))]
                 /\ UNCHANGED cache
    /\ UNCHANGED <<now, ticks, rateLimit, lib, dash>>

(***************************************************************************)
(* GET /api/historical, src/app/api/historical/route.ts.                   *)
(***************************************************************************)
\* fetchYahooHistoricalData: the series, or an exception.
HistOutcomes == {[ok |-> FALSE, series |-> Undefined]}
                \cup {[ok |-> TRUE, series |-> s] : s \in Series}

HistError500(msg) ==
    [EmptyBody EXCEPT !.status = 500, !.error = "Failed to fetch historical data",
                      !.details = msg]

HistStart(r, symbol, range) ==
    /\ MayEnter(r, "historical")
    /\ LET key == HistKey(symbol, range)
           q == Entered(r, "historical", symbol, TRUE, range, key)
           cachedData == GetFromCache(cache, key, now)
           c == [q EXCEPT !.reads = @ + 1]
       IN IF SymbolMissing(symbol)
          THEN /\ req' = [req EXCEPT ![r] = Respond(q, BadRequest)]
               /\ UNCHANGED cache
          ELSE /\ cache' = CacheAfterGet(cache, key, now)
               /\ req' = [req EXCEPT ![r] =
                            IF cachedData # NullData
                            THEN Respond(c, [EmptyBody EXCEPT
                                               !.data = cachedData.series,
                                               !.cached = TRUE])
                            ELSE [c EXCEPT !.pc = "fetch", !.dispatches = @ + 1]]
    /\ UNCHANGED <<now, ticks, rateLimit, lib, dash>>

\* A handler that stores an empty series when the fetch has failed.
HistFetchReturnCachingError(r, h) ==
    /\ req[r].kind = "historical"
    /\ req[r].pc = "fetch"
    /\ LET q == req[r]
           key == HistKey(q.symbol, q.range)
       IN /\ cache' = SetToCache(cache, key,
                                 [series |-> IF h.ok THEN h.series ELSE "none"],
                                 HIST_CACHE_DURATION, now)
          /\ req' = [req EXCEPT ![r] =
                       IF h.ok
                       THEN Respond(Wrote(q, HIST_CACHE_DURATION),
                                    [EmptyBody EXCEPT !.data = h.series,
                                                      !.cached = FALSE])
                       ELSE Respond(q, HistError500("Yahoo Finance API error"))]
    /\ UNCHANGED <<now, ticks, rateLimit, lib, dash>>

HistFetchReturn(r, h) ==
    /\ req[r].kind = "historical"
    /\ req[r].pc = "fetch"
    /\ LET q == req[r]
           key == HistKey(q.symbol, q.range)
       IN IF h.ok
          THEN /\ cache' = SetToCache(cache, key, [series |-> h.series],
                                      HIST_CACHE_DURATION, now)
               /\ req' = [req EXCEPT ![r] =
                            Respond(Wrote(q, HIST_CACHE_DURATION),
                                    [EmptyBody EXCEPT !.data = h.series,
                                                      !.cached = FALSE])]
          ELSE /\ req' = [req EXCEPT ![r] =
                            Respond(q, HistError500("Yahoo Finance API error"))]
               /\ UNCHANGED cache
    /\ UNCHANGED <<now, ticks, rateLimit, lib, dash>>

(***************************************************************************)
(* GET /api/yahoo, the rate-limited adapter (src/unnamed/part_001).        *)
(***************************************************************************)
\* The fetch is issued at time t; the abort timer is armed.
YahooDispatch(q, t) ==
    [q EXCEPT !.pc = "upstream", !.dispatchedAt = t,
              !.dispatchSeq = 1 + Cardinality({x \in Reqs : req[x].kind = "yahoo"
                                                  /\ req[x].dispatches > 0}),
              !.wakeAt = t + YAHOO_TIMEOUT, !.dispatches = @ + 1]

YahooStart(r, symbol) ==
    /\ MayEnter(r, "yahoo")
    /\ LET q == Entered(r, "yahoo", symbol, TRUE, "1mo", PriceKey(symbol))
           timeSinceLastRequest == now - rateLimit.lastRequestTime
       IN req' = [req EXCEPT ![r] =
                    IF SymbolMissing(symbol)
                    THEN Respond(q, BadRequest)
                    ELSE IF timeSinceLastRequest < minInterval
                    THEN [q EXCEPT !.pc = "rlwait",
                                   !.wakeAt = now + (minInterval - timeSinceLastRequest)]
                    ELSE YahooDispatch(q, now)]
    /\ UNCHANGED <<now, ticks, cache, rateLimit, lib, dash>>

\* await delay(minInterval - timeSinceLastRequest) is over.
YahooRateWake(r) ==
    /\ req[r].kind = "yahoo"
    /\ req[r].pc = "rlwait"
    /\ Due(r)
    /\ now' = FireTime(r)
    /\ req' = [req EXCEPT ![r] = YahooDispatch(req[r], FireTime(r))]
    /\ UNCHANGED <<ticks, cache, rateLimit, lib, dash>>

\* The upstream fetch settles before the abort timer fires.
YahooUpstreamReturn(r, u) ==
    /\ req[r].kind = "yahoo"
    /\ req[r].pc = "upstream"
    /\ u.kind # "timeout"
    /\ now <= req[r].wakeAt
    /\ IF u.kind = "neterr"
       THEN /\ req' = [req EXCEPT ![r] =
                         Respond([req[r] EXCEPT !.upstream = u],
                                 YahooResponse(u, req[r].symbol))]
            /\ UNCHANGED rateLimit
       ELSE /\ rateLimit' = [rateLimit EXCEPT !.lastRequestTime = now]
            /\ req' = [req EXCEPT ![r] =
                         IF u.kind = "http" /\ u.status = 429
                         THEN [req[r] EXCEPT !.pc = "cooldown429", !.upstream = u,
                                             !.wakeAt = now + YAHOO_RATE_LIMIT_WAIT]
                         ELSE Respond([req[r] EXCEPT !.upstream = u],
                                      YahooResponse(u, req[r].symbol))]
    /\ UNCHANGED <<now, ticks, cache, lib, dash>>

\* The abort timer fires first: fetch rejects with an AbortError.
YahooTimeout(r) ==
    /\ req[r].kind = "yahoo"
    /\ req[r].pc = "upstream"
    /\ Due(r)
    /\ now' = FireTime(r)
    /\ req' = [req EXCEPT ![r] =
                 Respond([req[r] EXCEPT !.upstream = UpFail("timeout", 0)],
                         YahooResponse(UpFail("timeout", 0), req[r].symbol))]
    /\ UNCHANGED <<ticks, cache, rateLimit, lib, dash>>

\* The response headers arrive in time (clearTimeout, lastRequestTime) and
\* the body never does: await response.json() stays pending.
YahooBodyStall(r) ==
    /\ req[r].kind = "yahoo"
    /\ req[r].pc = "upstream"
    /\ now <= req[r].wakeAt
    /\ rateLimit' = [rateLimit EXCEPT !.lastRequestTime = now]
    /\ req' = [req EXCEPT ![r] = [@ EXCEPT !.pc = "body", !.wakeAt = 0,
                                           !.upstream = UpFail("bodystall", 200)]]
    /\ UNCHANGED <<now, ticks, cache, lib, dash>>

\* A handler that, after the 5 s, sends the upstream request again.
YahooCooldownRedispatch(r) ==
    /\ req[r].kind = "yahoo"
    /\ req[r].pc = "cooldown429"
    /\ Due(r)
    /\ now' = FireTime(r)
    /\ req' = [req EXCEPT ![r] = YahooDispatch(req[r], FireTime(r))]
    /\ UNCHANGED <<ticks, cache, rateLimit, lib, dash>>

\* await delay(5000) after a 429 is over: the Error is thrown and caught.
YahooCooldownWake(r) ==
    /\ req[r].kind = "yahoo"
    /\ req[r].pc = "cooldown429"
    /\ Due(r)
    /\ now' = FireTime(r)
    /\ req' = [req EXCEPT ![r] =
                 Respond(req[r], YahooResponse(UpFail("http", 429), req[r].symbol))]
    /\ UNCHANGED <<ticks, cache, rateLimit, lib, dash>>

(***************************************************************************)
(* GET /api/yahoo, the plain adapter (src/app/api/yahoo/route.ts): no rate *)
(* limiter and no timeout.                                                 *)
(***************************************************************************)
YahooPlainStart(r, symbol) ==
    /\ MayEnter(r, "yahooPlain")
    /\ LET q == Entered(r, "yahooPlain", symbol, TRUE, "1mo", PriceKey(symbol))
       IN req' = [req EXCEPT ![r] =
                    IF SymbolMissing(symbol)
                    THEN Respond(q, BadRequest)
                    ELSE [q EXCEPT !.pc = "plainfetch", !.dispatchedAt = now,
                                   !.dispatches = @ + 1]]
    /\ UNCHANGED <<now, ticks, cache, rateLimit, lib, dash>>

\* The upstream fetch settles.
YahooPlainReturn(r, u) ==
    /\ req[r].kind = "yahooPlain"
    /\ req[r].pc = "plainfetch"
    /\ u.kind # "timeout"
    /\ req' = [req EXCEPT ![r] =
                 Respond([req[r] EXCEPT !.upstream = u], YahooPlainResponse(u))]
    /\ UNCHANGED <<now, ticks, cache, rateLimit, lib, dash>>

(***************************************************************************)
(* fetchData of the dashboard.                                             *)
(***************************************************************************)
\* The map callback with a catch that keeps the price of the response.
HoldingRowKeepingPrice(po, fo) ==
    IF po.kind = "resp"
    THEN [currentPrice |-> po.resp.price, error |-> Undefined,
          cached |-> po.resp.cached, lastUpdated |-> po.resp.lastUpdated]
    ELSE [currentPrice |-> Num(0), error |-> "fetch failed", cached |-> FALSE,
          lastUpdated |-> Undef]

\* The row of a holding whose requests were answered by po and fo: the body
\* of the try block of the map callback, and its catch.
HoldingRow(po, fo) ==
    LET failed(msg) == [currentPrice |-> Num(0), error |-> msg, cached |-> FALSE,
                        lastUpdated |-> Undef]
    IN CASE po.kind = "throw" \/ fo = "reject" -> failed("fetch failed")
         [] po.kind = "resp" /\ ~Ok(po.resp) -> failed("Failed to fetch price")
         [] fo = "badjson" -> failed("Unexpected token in JSON")
         [] OTHER -> [currentPrice |-> po.resp.price, error |-> Undefined,
                      cached |-> po.resp.cached, lastUpdated |-> po.resp.lastUpdated]

\* fetchData is called (on mount, then by setInterval every 15 s): the code up
\* to await fetch('/api/portfolio').
DashFetchData ==
    /\ dash.pc = "idle"
    /\ dash.runs < MaxRuns
    /\ LET t == IF dash.runs > 0 /\ now < dash.startedAt + REFRESH_INTERVAL
                THEN dash.startedAt + REFRESH_INTERVAL ELSE now
           cachedData == GetFromCache(dash.cache, PortfolioKey, t)
       IN /\ now' = t
          /\ dash' = [dash EXCEPT
                        !.pc = "portfolio", !.loading = TRUE,
                        !.runs = @ + 1, !.startedAt = t,
                        !.errorBefore = dash.error, !.completed = FALSE,
                        !.hold = [h \in Holdings |-> IdleHolding],
                        !.cache = CacheAfterGet(dash.cache, PortfolioKey, t),
                        !.stocks = IF cachedData # NullData THEN cachedData.rows
                                   ELSE @]
    /\ UNCHANGED <<ticks, cache, rateLimit, req, lib>>

\* The portfolio request is answered: on a failure the outer catch and
\* finally; else the map callbacks start, the first sends its requests and
\* the others set their 500 ms timers.
DashPortfolioReturn(o) ==
    /\ dash.pc = "portfolio"
    /\ dash' = IF o = "ok"
               THEN [dash EXCEPT
                       !.pc = "prices",
                       !.hold = [h \in Holdings |->
                                   IF h > 0
                                   THEN [IdleHolding EXCEPT
                                            !.pc = "wait",
                                            !.wakeAt = now + HOLDING_DELAY]
                                   ELSE [IdleHolding EXCEPT
                                            !.pc = "fetch", !.sentAt = now]]]
               ELSE [dash EXCEPT
                       !.pc = "idle", !.loading = FALSE,
                       !.error = IF o = "notok" THEN "Failed to fetch portfolio data"
                                 ELSE IF o = "reject" THEN "fetch failed"
                                 ELSE "Unexpected token in JSON"]
    /\ UNCHANGED <<now, ticks, cache, rateLimit, req, lib>>

\* The timer of holding h fires (timers of equal delay fire in the order they
\* were set): its two requests are sent.
DashHoldingWake(h) ==
    /\ dash.pc = "prices"
    /\ dash.hold[h].pc = "wait"
    /\ \A g \in Holdings : g < h => dash.hold[g].pc # "wait"
    /\ LET t == IF now < dash.hold[h].wakeAt THEN dash.hold[h].wakeAt ELSE now
       IN /\ now' = t
          /\ dash' = [dash EXCEPT !.hold[h].pc = "fetch", !.hold[h].sentAt = t]
    /\ UNCHANGED <<ticks, cache, rateLimit, req, lib>>

\* The two requests of holding h are answered.
DashHoldingReturn(h, po, fo) ==
    /\ dash.pc = "prices"
    /\ dash.hold[h].pc = "fetch"
    /\ dash' = [dash EXCEPT !.hold[h].pc = "done", !.hold[h].po = po,
                            !.hold[h].fo = fo, !.hold[h].row = HoldingRow(po, fo)]
    /\ UNCHANGED <<now, ticks, cache, rateLimit, req, lib>>

\* Promise.all is fulfilled: the rows are stored and shown; finally.
DashFinish ==
    /\ dash.pc = "prices"
    /\ \A h \in Holdings : dash.hold[h].pc = "done"
    /\ LET processedStocks == [h \in Holdings |-> dash.hold[h].row]
       IN dash' = [dash EXCEPT
                     !.pc = "idle", !.loading = FALSE, !.completed = TRUE,
                     !.stocks = processedStocks,
                     !.cache = SetToCache(dash.cache, PortfolioKey,
                                          [rows |-> processedStocks],
                                          DASH_CACHE_DURATION, now)]
    /\ UNCHANGED <<now, ticks, cache, rateLimit, req, lib>>

(***************************************************************************)
(* The system.                                                             *)
(***************************************************************************)
Next ==
    \/ Tick
    \/ Quiet
    \/ \E r \in Reqs, symbol \in Symbols : CmpStart(r, symbol)
    \/ \E r \in Reqs : \E o \in FetchOutcomes(req[r].symbol) : CmpFetchReturn(r, o)
    \/ \E r \in Reqs : CmpBackoffWake(r)
    \/ \E r \in Reqs : CmpCooldownWake(r)
    \/ \E r \in Reqs, symbol \in Symbols, useCache \in BOOLEAN :
          OptStart(r, symbol, useCache)
    \/ \E r \in Reqs : \E o \in FetchOutcomes(req[r].symbol) : OptFetchReturn(r, o)
    \/ \E r \in Reqs : OptBackoffWake(r)
    \/ \E r \in Reqs, symbol \in Symbols : SimpleStart(r, symbol)
    \/ \E r \in Reqs : \E o \in FetchOutcomes(req[r].symbol) : SimpleFetchReturn(r, o)
    \/ \E r \in Reqs, symbol \in Symbols, range \in Ranges : HistStart(r, symbol, range)
    \/ \E r \in Reqs : \E h \in HistOutcomes : HistFetchReturn(r, h)
    \/ \E r \in Reqs, symbol \in Symbols : YahooStart(r, symbol)
    \/ \E r \in Reqs : YahooRateWake(r)
    \/ \E r \in Reqs : \E u \in Upstream : YahooUpstreamReturn(r, u)
    \/ \E r \in Reqs : YahooTimeout(r)
    \/ \E r \in Reqs : YahooCooldownWake(r)
    \/ \E r \in Reqs : YahooBodyStall(r)
    \/ \E r \in Reqs, symbol \in Symbols : YahooPlainStart(r, symbol)
    \/ \E r \in Reqs : \E u \in Upstream : YahooPlainReturn(r, u)

Spec == Init /\ [][Next]_vars

(***************************************************************************)
(* The getQuote handlers alone.  The event loop resumes a suspended        *)
(* handler when its fetch has settled or its timer is due.                 *)
(***************************************************************************)
GetQuoteContinue ==
    \/ \E r \in Reqs : \E o \in FetchOutcomes(req[r].symbol) : CmpFetchReturn(r, o)
    \/ \E r \in Reqs : CmpBackoffWake(r)
    \/ \E r \in Reqs : CmpCooldownWake(r)
    \/ \E r \in Reqs : \E o \in FetchOutcomes(req[r].symbol) : OptFetchReturn(r, o)
    \/ \E r \in Reqs : OptBackoffWake(r)

GetQuoteNext ==
    \/ Quiet
    \/ \E r \in Reqs, symbol \in Symbols : CmpStart(r, symbol)
    \/ \E r \in Reqs, symbol \in Symbols, useCache \in BOOLEAN :
          OptStart(r, symbol, useCache)
    \/ GetQuoteContinue

GetQuoteSpec == Init /\ [][GetQuoteNext]_vars /\ WF_vars(GetQuoteContinue)

(***************************************************************************)
(* Overlapping getQuote calls (the cache-option handler), on a cache that  *)
(* is empty or holds the quote an earlier call fetched: one written long   *)
(* enough ago to have expired, or one written a millisecond ago.           *)
(***************************************************************************)
LateStart == StartTime + OPT_CACHE_DURATION + 1

\* The entry a call that fetched price 100 at time t left in the cache.
EarlierEntry(t) ==
    SetToCache(EmptyCache, PriceKey("ACME"),
               [price |-> Num(100), lastUpdated |-> Str(t), currency |-> "USD",
                source |-> "unknown"],
               OPT_CACHE_DURATION, t)

ConcurrentInit ==
    /\ now = LateStart
    /\ ticks = 0
    /\ cache \in {EmptyCache, EarlierEntry(StartTime), EarlierEntry(LateStart - 1)}
    /\ rateLimit = [lastRequestTime |-> 0]
    /\ req = [r \in Reqs |-> IdleReq]
    /\ lib = NoCalls
    /\ dash = DashInit

ConcurrentNext ==
    \/ \E r \in Reqs, symbol \in Symbols, useCache \in BOOLEAN :
          OptStartOverlapping(r, symbol, useCache)
    \/ \E r \in Reqs : \E o \in FetchOutcomes(req[r].symbol) : OptFetchReturn(r, o)
    \/ \E r \in Reqs : OptBackoffWake(r)

ConcurrentSpec == ConcurrentInit /\ [][ConcurrentNext]_vars

(***************************************************************************)
(* The dashboard alone.                                                    *)
(***************************************************************************)
DashNext ==
    \/ DashFetchData
    \/ \E o \in PortfolioOutcomes : DashPortfolioReturn(o)
    \/ \E h \in Holdings : DashHoldingWake(h)
    \/ \E h \in Holdings, po \in PriceOutcomes, fo \in FundOutcomes :
          DashHoldingReturn(h, po, fo)
    \/ DashFinish

DashSpec == Init /\ [][DashNext]_vars

(***************************************************************************)
(* The rate-limited adapter alone, in a process that has served no request *)
(* yet or got the answer to one 500 ms ago.  The event loop resumes a      *)
(* suspended handler when its fetch has settled or its timer is due; that  *)
(* the upstream answers is not assumed.                                    *)
(***************************************************************************)
AdapterInit ==
    /\ now = StartTime
    /\ ticks = 0
    /\ cache = EmptyCache
    /\ rateLimit \in {[lastRequestTime |-> 0],
                      [lastRequestTime |-> StartTime - (minInterval \div 2)]}
    /\ req = [r \in Reqs |-> IdleReq]
    /\ lib = NoCalls
    /\ dash = DashInit

AdapterContinue ==
    \/ \E r \in Reqs : YahooRateWake(r)
    \/ \E r \in Reqs : \E u \in Upstream : YahooUpstreamReturn(r, u)
    \/ \E r \in Reqs : YahooTimeout(r)
    \/ \E r \in Reqs : YahooCooldownWake(r)

AdapterNext ==
    \/ Tick
    \/ \E r \in Reqs, symbol \in Symbols : YahooStart(r, symbol)
    \/ \E r \in Reqs : YahooBodyStall(r)
    \/ AdapterContinue

AdapterSpec == AdapterInit /\ [][AdapterNext]_vars /\ WF_vars(AdapterContinue)

(***************************************************************************)
(* The cache functions alone.                                              *)
(***************************************************************************)
CacheNext ==
    \/ \E key \in LibKeys, data \in LibValues, ttl \in LibTtls : LibSet(key, data, ttl)
    \/ \E key \in LibKeys : LibGet(key)
    \/ LibSweep
    \/ LibPass

CacheSpec == Init /\ [][CacheNext]_vars

(***************************************************************************)
(* Vocabulary of the properties.                                           *)
(***************************************************************************)
GetQuoteKinds == {"cmp", "cmpOpt"}

Done(r) == req[r].pc = "done"

IsGetQuote(r) == req[r].kind \in GetQuoteKinds

\* The call has answered, it dispatched, and no attempt gave it a live quote.
LiveFailed(r) ==
    /\ IsGetQuote(r)
    /\ Done(r)
    /\ req[r].dispatches > 0
    /\ (req[r].resp.status # 200 \/ req[r].resp.cached)

\* A price that is a number and not negative.
ValidPrice(p) == p.t = "number" /\ p.v >= 0

\* The cache held an expired entry, a quote with a positive price, for the
\* call's key when the call began.
ExpiredAtStart(r) ==
    /\ req[r].entryAtStart # NoItem
    /\ Expired(req[r].entryAtStart, req[r].startedAt)
    /\ ValidPrice(req[r].entryAtStart.data.price)
    /\ req[r].entryAtStart.data.price.v > 0

\* A quote with a numeric price and a timestamp.
WellFormed(resp) == resp.price.t = "number" /\ resp.lastUpdated.t = "string"

(***************************************************************************)
(* C1.  Stale fallback: when every live attempt of a getQuote call fails   *)
(* and the cache held an expired entry for price:<symbol>, the call        *)
(* answers with that entry's quote, cached = true and a warning, not with  *)
(* an error response.                                                      *)
(***************************************************************************)
C1_StaleFallback ==
    \A r \in Reqs :
        LiveFailed(r) /\ ExpiredAtStart(r)
            => /\ req[r].resp.status = 200
               /\ req[r].resp.price = req[r].entryAtStart.data.price
               /\ req[r].resp.cached
               /\ req[r].resp.warning # Undefined

(***************************************************************************)
(* C2.  Rate limiter: any two upstream dispatches of the adapter are at    *)
(* least minInterval apart, whether or not the requests overlap.           *)
(***************************************************************************)
C2_MinInterval ==
    \A r1, r2 \in Reqs :
        /\ r1 # r2
        /\ req[r1].kind = "yahoo" /\ req[r1].dispatches > 0
        /\ req[r2].kind = "yahoo" /\ req[r2].dispatches > 0
        /\ req[r1].dispatchedAt <= req[r2].dispatchedAt
        => req[r2].dispatchedAt - req[r1].dispatchedAt >= minInterval

\* The quote the secondary source has for every symbol.
SecondaryQuote == [price |-> Num(101), currency |-> "USD"]

(***************************************************************************)
(* C3.  Fallback ordering: with useCache = false, when the primary fails   *)
(* on every allowed attempt and the secondary source can supply a quote    *)
(* (it always can: SecondaryQuote), the call answers with the secondary's  *)
(* price, cached = false and a warning.                                    *)
(***************************************************************************)
C3_SecondaryFallback ==
    \A r \in Reqs :
        LiveFailed(r) /\ ~req[r].useCache
            => /\ req[r].resp.status = 200
               /\ req[r].resp.price = SecondaryQuote.price
               /\ ~req[r].resp.cached
               /\ req[r].resp.warning # Undefined

\* r2 is a call of r1's handler begun after r1 answered with a live quote and
\* before that quote's ttl has elapsed, both with useCache = true.
InSuccession(r1, r2) ==
    /\ r1 # r2
    /\ IsGetQuote(r1) /\ req[r2].kind = req[r1].kind
    /\ req[r1].symbol = req[r2].symbol
    /\ req[r1].useCache /\ req[r2].useCache
    /\ r1 \in req[r2].sawDone
    /\ Done(r2)
    /\ req[r1].resp.status = 200 /\ ~req[r1].resp.cached
    /\ req[r2].startedAt - req[r1].resp.lastUpdated.v < CMP_CACHE_DURATION

(***************************************************************************)
(* C4.  Idempotence of the cached read: of two getQuote calls of the same  *)
(* handler for one symbol with useCache = true, the second begun after the *)
(* first has answered with a live quote and before that quote's ttl has    *)
(* elapsed, the second answers from the cache (cached = true, no           *)
(* dispatch) with the same price, currency and lastUpdated.                *)
(***************************************************************************)
C4_CachedReadIdempotent ==
    \A r1, r2 \in Reqs :
        InSuccession(r1, r2)
            => /\ req[r2].resp.price = req[r1].resp.price
               /\ req[r2].resp.currency = req[r1].resp.currency
               /\ req[r2].resp.lastUpdated = req[r1].resp.lastUpdated
               /\ req[r2].resp.cached
               /\ req[r2].dispatches = 0

(***************************************************************************)
(* C5.  Total failure: when every live attempt fails and the cache held no *)
(* entry for the symbol, the call answers with status 500 or 503, no       *)
(* quote, and a body carrying error, details and symbol.                   *)
(***************************************************************************)
C5_TotalFailure ==
    \A r \in Reqs :
        LiveFailed(r) /\ req[r].entryAtStart = NoItem
            => /\ req[r].resp.status \in {500, 503}
               /\ req[r].resp.price = Undef
               /\ req[r].resp.error # Undefined
               /\ req[r].resp.details # Undefined
               /\ req[r].resp.symbol = req[r].symbol

\* A cmp call ended 503 and a cmpOpt call ended 500, both on an empty cache.
C5_Witness ==
    \E r1, r2 \in Reqs :
        /\ LiveFailed(r1) /\ req[r1].entryAtStart = NoItem
        /\ req[r1].kind = "cmp" /\ req[r1].resp.status = 503
        /\ LiveFailed(r2) /\ req[r2].entryAtStart = NoItem
        /\ req[r2].kind = "cmpOpt" /\ req[r2].resp.status = 500

\* The request was answered 400 without a dispatch or a cache access.
Rejected(q) ==
    /\ q.pc = "done"
    /\ q.resp = BadRequest
    /\ q.dispatches = 0 /\ q.reads = 0 /\ q.writes = 0

(***************************************************************************)
(* C6.  A request with a missing or empty symbol is answered 400 at once:  *)
(* the request is never suspended, it dispatches nothing, reads and writes *)
(* no cache entry, and the step that answers it leaves the cache, the rate *)
(* limiter and the clock as they were; in every handler.                   *)
(***************************************************************************)
C6_MissingSymbolRejected ==
    /\ [](\A r \in Reqs :
             req[r].kind # "none" /\ req[r].symbol = "" => Rejected(req[r]))
    /\ [][\A r \in Reqs :
             req[r].pc = "idle" /\ req'[r].pc # "idle" /\ req'[r].symbol = ""
                => cache' = cache /\ rateLimit' = rateLimit /\ now' = now]_vars

\* An adapter request and a historical request, both without a symbol.
C6_Witness ==
    \E r1, r2 \in Reqs :
        /\ req[r1].kind = "yahoo" /\ req[r1].symbol = "" /\ Done(r1)
        /\ req[r2].kind = "historical" /\ req[r2].symbol = "" /\ Done(r2)

\* MAX_RETRIES + 1 of the handler.
MaxDispatches(kind) ==
    IF kind = "cmp" THEN CMP_MAX_RETRIES + 1 ELSE OPT_MAX_RETRIES + 1

(***************************************************************************)
(* C7.  Every getQuote call ends with a response, after at most            *)
(* MAX_RETRIES + 1 dispatches to the adapter (3 in cmp/route.ts, 2 in the  *)
(* cache-option variant), whatever the outcomes of its attempts.           *)
(***************************************************************************)
C7_BoundedRetries ==
    /\ [](\A r \in Reqs :
             IsGetQuote(r) => req[r].dispatches <= MaxDispatches(req[r].kind))
    /\ \A r \in Reqs : (IsGetQuote(r) /\ InFlight(req[r])) ~> Done(r)

\* A cmp call that answered after three dispatches, and a cmpOpt call after two.
C7_Witness ==
    \E r1, r2 \in Reqs :
        /\ req[r1].kind = "cmp" /\ Done(r1) /\ req[r1].dispatches = 3
        /\ req[r2].kind = "cmpOpt" /\ Done(r2) /\ req[r2].dispatches = 2

(***************************************************************************)
(* C8.  No getQuote response is partially valid: it carries a well-formed  *)
(* quote (numeric price and lastUpdated), or an error and no quote; and    *)
(* every success-status response carries a well-formed quote.              *)
(***************************************************************************)
C8_NeverPartiallyValid ==
    \A r \in Reqs :
        IsGetQuote(r) /\ Done(r)
            => /\ \/ WellFormed(req[r].resp)
                  \/ req[r].resp.error # Undefined /\ req[r].resp.price = Undef
               /\ Ok(req[r].resp) => WellFormed(req[r].resp)

(***************************************************************************)
(* C9.  Every quote the adapter returns has a price that is a positive     *)
(* number (an upstream price that is zero, negative, null or not a number  *)
(* makes the adapter fail), and every price written to the cache or        *)
(* returned by getQuote is a number and not negative.                      *)
(***************************************************************************)
C9_PriceValid ==
    /\ \A r \in Reqs :
          req[r].kind = "yahoo" /\ Done(r) /\ Ok(req[r].resp)
             => ValidPrice(req[r].resp.price) /\ req[r].resp.price.v > 0
    /\ \A r \in Reqs :
          IsGetQuote(r) /\ Done(r) /\ Ok(req[r].resp)
             => ValidPrice(req[r].resp.price)
    /\ \A k \in DOMAIN cache : k[1] = "price" => ValidPrice(cache[k].data.price)

\* The class of the key a handler writes.
KeyClass(q) == IF q.kind = "historical" THEN "historical" ELSE "price"

(***************************************************************************)
(* C10.  Every cache entry expires at the time of its last write plus the  *)
(* ttl of that write; all writes under price: keys use one and the same    *)
(* ttl, whichever handler writes, and writes under historical: keys use    *)
(* the 24-hour ttl.                                                        *)
(***************************************************************************)
C10_TtlPerKeyClass ==
    /\ \A k \in DOMAIN cache :
          cache[k].expiry = cache[k].writtenAt + cache[k].ttl
    /\ \A r1, r2 \in Reqs :
          /\ req[r1].writes > 0 /\ req[r2].writes > 0
          /\ KeyClass(req[r1]) = KeyClass(req[r2])
          => req[r1].ttlUsed = req[r2].ttlUsed
    /\ \A r \in Reqs :
          req[r].writes > 0 /\ req[r].kind = "historical"
             => req[r].ttlUsed = HIST_CACHE_DURATION

(***************************************************************************)
(* C11.  Cache round trip: whatever the cache held before (an entry for    *)
(* the key included: setToCache overwrites it), a getFromCache(k) made     *)
(* after setToCache(k, v, ttl) returns v while less than ttl has passed    *)
(* since the set, and returns null once more than ttl has passed.          *)
(***************************************************************************)
C11_CacheRoundTrip ==
    lib.op = "get" /\ lib.lastSet[lib.key] # NoItem
        => LET s == lib.lastSet[lib.key]
           IN /\ lib.at - s.at < s.ttl => lib.result = s.data
              /\ lib.at - s.at > s.ttl => lib.result = NullData

\* A get made after time has passed, but less than the ttl, returned the value.
C11_Witness ==
    /\ lib.op = "get" /\ lib.lastSet[lib.key] # NoItem
    /\ lib.at > lib.lastSet[lib.key].at
    /\ lib.at - lib.lastSet[lib.key].at < lib.lastSet[lib.key].ttl
    /\ lib.result = lib.lastSet[lib.key].data

(***************************************************************************)
(* C19.  getFromCache(key) returns null and removes the entry exactly when *)
(* the cache has an entry for the key and now > its expiry; it then        *)
(* removes that entry only; a call for a missing key or an unexpired entry *)
(* leaves the whole cache as it was (and returns the unexpired data).      *)
(***************************************************************************)
C19_GetFrame ==
    [][lib'.n # lib.n /\ lib'.op = "get"
          => LET key == lib'.key
                 stale == key \in DOMAIN cache /\ now > cache[key].expiry
             IN /\ (/\ lib'.result = NullData
                    /\ key \in DOMAIN cache
                    /\ key \notin DOMAIN cache') <=> stale
                /\ stale => cache' = [k \in DOMAIN cache \ {key} |-> cache[k]]
                /\ ~stale => cache' = cache
                /\ key \notin DOMAIN cache => lib'.result = NullData
                /\ ~stale /\ key \in DOMAIN cache => lib'.result = cache[key].data]_vars

\* A get found its entry expired and removed it; the other entry is still there.
C19_Witness ==
    /\ lib.op = "get" /\ lib.result = NullData
    /\ lib.lastSet[lib.key] # NoItem
    /\ lib.key \notin DOMAIN cache
    /\ DOMAIN cache # {}

\* The two adapter handlers.
AdapterKinds == {"yahoo", "yahooPlain"}

\* The upstream request failed: it did not give a 200 body with the price field.
UpstreamFailed(u) == u.kind # "http" \/ u.status # 200 \/ u.price = Undef

(***************************************************************************)
(* C12.  The adapter answers every request it dispatched with a response:  *)
(* when the upstream request failed (network error, abort on timeout,      *)
(* non-2xx status, error body, body without the price field) the response  *)
(* is non-2xx and carries an error and no price; a success response        *)
(* carries the price the upstream body had, so a missing price field never *)
(* becomes a success with price 0.                                         *)
(***************************************************************************)
C12_AdapterNeverThrows ==
    \A r \in Reqs :
        req[r].kind \in AdapterKinds /\ Done(r) /\ req[r].dispatches > 0
            => /\ req[r].resp # NoResp
               /\ UpstreamFailed(req[r].upstream)
                     => /\ ~Ok(req[r].resp)
                        /\ req[r].resp.error # Undefined
                        /\ req[r].resp.price = Undef
               /\ Ok(req[r].resp)
                     => /\ req[r].resp.price = req[r].upstream.price
                        /\ req[r].upstream.price # Undef

\* The rate-limited adapter timed out, and the plain adapter was given a body
\* without the price field.
C12_Witness ==
    \E r1, r2 \in Reqs :
        /\ req[r1].kind = "yahoo" /\ Done(r1)
        /\ req[r1].upstream.kind = "timeout" /\ req[r1].resp.status = 504
        /\ req[r2].kind = "yahooPlain" /\ Done(r2)
        /\ req[r2].upstream.kind = "http" /\ req[r2].upstream.status = 200
        /\ req[r2].upstream.price = Undef /\ req[r2].resp.status = 500

\* The request is a /historical request that has been answered.
HistDone(r) == req[r].kind = "historical" /\ Done(r) /\ req[r].symbol # ""

\* The cache held an unexpired entry for the request's key when it began.
UnexpiredAtStart(r) ==
    /\ req[r].entryAtStart # NoItem
    /\ ~Expired(req[r].entryAtStart, req[r].startedAt)

(***************************************************************************)
(* C13.  A /historical request for (symbol, range) that finds an unexpired *)
(* entry under historical:<symbol>:<range> answers that series with        *)
(* cached = true and fetches nothing; otherwise it fetches once and, when  *)
(* the fetch succeeds, stores the series under that key with the 24-hour   *)
(* ttl and answers it with cached = false.  Ranges are independent: a      *)
(* cached answer is a series an earlier request for the same symbol and    *)
(* range fetched, and a request changes no entry but that of its own key.  *)
(***************************************************************************)
C13_HistoricalCaching ==
    /\ [](\A r \in Reqs :
             HistDone(r)
                => /\ UnexpiredAtStart(r)
                         => /\ req[r].resp.status = 200 /\ req[r].resp.cached
                            /\ req[r].resp.data = req[r].entryAtStart.data.series
                            /\ req[r].dispatches = 0 /\ req[r].writes = 0
                   /\ ~UnexpiredAtStart(r)
                         => /\ req[r].dispatches = 1 /\ ~req[r].resp.cached
                            /\ req[r].resp.status = 200
                                  => /\ req[r].writes = 1
                                     /\ req[r].ttlUsed = HIST_CACHE_DURATION
                   /\ req[r].resp.cached
                         => \E q \in req[r].sawDone :
                               /\ req[q].kind = "historical" /\ req[q].writes = 1
                               /\ req[q].symbol = req[r].symbol
                               /\ req[q].range = req[r].range
                               /\ req[q].resp.data = req[r].resp.data)
    /\ [][\A r \in Reqs :
             req[r].pc # "done" /\ HistDone(r)'
                => LET key == <<"historical", req'[r].symbol, req'[r].range>>
                   IN /\ \A k \in (DOMAIN cache \cup DOMAIN cache') \ {key} :
                            ItemAt(cache', k) = ItemAt(cache, k)
                      /\ req'[r].resp.status = 200 /\ ~req'[r].resp.cached
                            => /\ key \in DOMAIN cache'
                               /\ cache'[key].data = [series |-> req'[r].resp.data]
                               /\ cache'[key].expiry = now' + 86400000]_vars

\* A request for one range is answered from the cache, with the series an
\* earlier request fetched, and a later request for the same range, made
\* more than 24 hours later, is not.
C13_Witness ==
    \E r1, r2 \in Reqs :
        /\ HistDone(r1) /\ HistDone(r2) /\ r1 \in req[r2].sawDone
        /\ req[r1].range = req[r2].range /\ req[r1].symbol = req[r2].symbol
        /\ req[r1].writes = 1
        /\ req[r2].entryAtStart # NoItem /\ ~UnexpiredAtStart(r2)
        /\ req[r2].writes = 1 /\ ~req[r2].resp.cached

\* Two calls of the cache-option handler for one symbol, each begun while the
\* other had not answered, each with the cache enabled and finding no
\* unexpired entry; both have answered.
BothMissed(r1, r2) ==
    /\ r1 # r2
    /\ req[r1].kind = "cmpOpt" /\ req[r2].kind = "cmpOpt"
    /\ req[r1].symbol = req[r2].symbol /\ req[r1].symbol # ""
    /\ req[r1].useCache /\ req[r2].useCache
    /\ r1 \notin req[r2].sawDone /\ r2 \notin req[r1].sawDone
    /\ ~UnexpiredAtStart(r1) /\ ~UnexpiredAtStart(r2)
    /\ Done(r1) /\ Done(r2)

\* A quote, or an error without a quote.
WellFormedOutcome(resp) ==
    \/ Ok(resp) /\ WellFormed(resp)
    \/ ~Ok(resp) /\ resp.error # Undefined /\ resp.price = Undef

\* The cache item is the quote of this call's response, written with the
\* quote ttl.
IsQuoteOf(item, r) ==
    /\ req[r].writes = 1 /\ ~req[r].resp.cached
    /\ item.data.price = req[r].resp.price
    /\ item.data.lastUpdated = req[r].resp.lastUpdated
    /\ item.data.currency = req[r].resp.currency
    /\ item.expiry = item.writtenAt + 300000

(***************************************************************************)
(* C14.  When two overlapping getQuote calls for one symbol both miss the  *)
(* cache, in whatever order their steps interleave, each answers a         *)
(* well-formed outcome, and once both have answered the cache holds for    *)
(* price:<symbol> nothing (neither call fetched a quote) or exactly the    *)
(* quote one of the two fetched, expiring at that write's time plus the    *)
(* quote ttl.                                                              *)
(***************************************************************************)
C14_ConcurrentMisses ==
    \A r1, r2 \in Reqs :
        BothMissed(r1, r2)
            => LET key == <<"price", req[r1].symbol>>
               IN /\ WellFormedOutcome(req[r1].resp)
                  /\ WellFormedOutcome(req[r2].resp)
                  /\ Cardinality({k \in DOMAIN cache :
                                     k[1] = "price" /\ k[2] = req[r1].symbol}) <= 1
                  /\ key \in DOMAIN cache
                        => IsQuoteOf(cache[key], r1) \/ IsQuoteOf(cache[key], r2)
                  /\ req[r1].writes + req[r2].writes > 0 => key \in DOMAIN cache

\* Both calls fetched a quote, with different prices; the cache holds one.
C14_Witness ==
    \E r1, r2 \in Reqs :
        /\ BothMissed(r1, r2)
        /\ req[r1].writes = 1 /\ req[r2].writes = 1
        /\ req[r1].resp.price # req[r2].resp.price
        /\ req[r1].entryAtStart # NoItem
        /\ IsQuoteOf(cache[<<"price", req[r1].symbol>>], r2)

\* The price request of holding h was answered with a quote.
PriceSucceeded(h) ==
    /\ dash.hold[h].po.kind = "resp"
    /\ Ok(dash.hold[h].po.resp)

\* Both requests of holding h succeeded.
HoldingSucceeded(h) == PriceSucceeded(h) /\ dash.hold[h].fo = "json"

\* A run of fetchData is over in which the price request of exactly one
\* holding failed and the requests of all the others succeeded.
PartialFailure(f) ==
    /\ dash.pc = "idle" /\ dash.runs > 0
    /\ \A h \in Holdings : dash.hold[h].pc = "done"
    /\ ~PriceSucceeded(f)
    /\ \A h \in Holdings \ {f} : HoldingSucceeded(h)

UnexpiredQuote(item, t) ==
    /\ item # NoItem
    /\ ~(t > item.expiry)
    /\ ValidPrice(item.data.price) /\ item.data.price.v > 0

(***************************************************************************)
(* C16.  A getQuote call whose live attempts have all failed answers an    *)
(* error only if the cache holds no value for the symbol: if, at the       *)
(* moment it answers, the cache holds an unexpired quote under             *)
(* price:<symbol> (with useCache true or false; present since the call     *)
(* began, or written meanwhile by another call), it answers that quote     *)
(* with cached = true and a warning.                                       *)
(***************************************************************************)
C16_CachedBeforeError ==
    [][\A r \in Reqs :
          req[r].pc # "done" /\ LiveFailed(r)'
             => LET item == ItemAt(cache', <<"price", req'[r].symbol>>)
                IN UnexpiredQuote(item, now')
                      => /\ req'[r].resp.status = 200
                         /\ req'[r].resp.cached
                         /\ req'[r].resp.warning # Undefined
                         /\ req'[r].resp.price = item.data.price]_vars

\* The error messages that name an HTTP 429 from the adapter.
Names429 == {"Yahoo API request failed with status 429",
             "Rate limited by Yahoo Finance. Please try again later."}

(***************************************************************************)
(* C17.  In cmp/route.ts an attempt answered 429 is, once the cooldown is  *)
(* over, a failed attempt like any other: before the last attempt it uses  *)
(* up one attempt and the next one follows after its retry delay; on the   *)
(* last attempt the call ends as the catch block ends it for any other     *)
(* failure (the cached quote if there is one, else the error response),    *)
(* with the error detail naming the 429.                                   *)
(***************************************************************************)
C17_RateLimitedIsFailure ==
    [][\A r \in Reqs :
          req[r].kind = "cmp" /\ req[r].pc = "cooldown" /\ req'[r] # req[r]
             => IF req[r].attempt < CMP_MAX_RETRIES
                THEN /\ req'[r].attempt = req[r].attempt + 1
                     /\ req'[r].pc = "backoff"
                     /\ req'[r].wakeAt = now' + CMP_RETRY_DELAY * req'[r].attempt
                ELSE /\ req'[r].pc = "done"
                     /\ \E msg \in Names429 :
                           req'[r].resp = CmpCatch(req[r], msg, now').resp]_vars

\* The adapter request has issued its upstream fetch.
Dispatched(r) == req[r].kind = "yahoo" /\ req[r].dispatches > 0

(***************************************************************************)
(* C18.  rateLimit.lastRequestTime is written only by the adapter, at each *)
(* upstream dispatch: it is the time of a dispatch, no dispatched request  *)
(* has a later dispatch time (so a request that arrives while another one  *)
(* is in flight sees that one's dispatch time), and the only steps that    *)
(* change it are dispatch steps, which set it to the current time.         *)
(***************************************************************************)
C18_WrittenAtDispatch ==
    /\ [](/\ \A r \in Reqs :
                Dispatched(r) => rateLimit.lastRequestTime >= req[r].dispatchedAt
          /\ \/ rateLimit.lastRequestTime = 0
             \/ \E r \in Reqs :
                   Dispatched(r) /\ rateLimit.lastRequestTime = req[r].dispatchedAt)
    /\ [][rateLimit' # rateLimit
            => /\ rateLimit'.lastRequestTime = now'
               /\ \E r \in Reqs :
                     /\ req'[r].kind = "yahoo"
                     /\ req'[r].dispatches = req[r].dispatches + 1]_vars

(***************************************************************************)
(* C20.  Within one getQuote call the cache is read only before the first  *)
(* dispatch or when the last attempt has failed, never between attempts;   *)
(* and a call of which an attempt obtained a live quote answers that quote *)
(* with cached = false, whatever the cache holds.                          *)
(***************************************************************************)
C20_LiveWinsOverCache ==
    /\ [](\A r \in Reqs :
             IsGetQuote(r) /\ Done(r) /\ req[r].live # Undef
                => /\ req[r].resp.status = 200
                   /\ req[r].resp.price = req[r].live
                   /\ ~req[r].resp.cached)
    /\ [][\A r \in Reqs :
             IsGetQuote(r)' /\ req'[r].reads # req[r].reads
                => /\ req'[r].reads = req[r].reads + 1
                   /\ \/ req[r].dispatches = 0
                      \/ req'[r].pc = "done" /\ LiveFailed(r)']_vars

\* A call made with cache=false while the cache held an unexpired quote
\* failed once, then obtained a live quote with another price, and answered it.
C20_Witness ==
    \E r \in Reqs :
        /\ req[r].kind = "cmpOpt" /\ Done(r) /\ ~req[r].useCache
        /\ UnexpiredAtStart(r)
        /\ req[r].dispatches = 2
        /\ req[r].live # Undef
        /\ req[r].live # req[r].entryAtStart.data.price
        /\ req[r].resp.price = req[r].live

(***************************************************************************)
(* C21.  The first attempt of a getQuote call that obtains a live quote    *)
(* ends the call: in that step the quote is written under price:<symbol>   *)
(* with the quote ttl and answered with cached = false, and the call       *)
(* dispatches nothing more, then or later.                                 *)
(***************************************************************************)
C21_SuccessShortCircuits ==
    [][\A r \in Reqs :
          /\ IsGetQuote(r)' /\ req[r].live = Undef /\ req'[r].live # Undef
                => LET key == <<"price", req'[r].symbol>>
                   IN /\ req'[r].pc = "done"
                      /\ req'[r].resp.status = 200 /\ ~req'[r].resp.cached
                      /\ req'[r].resp.price = req'[r].live
                      /\ req'[r].dispatches = req[r].dispatches
                      /\ key \in DOMAIN cache'
                      /\ cache'[key].data.price = req'[r].live
                      /\ cache'[key].data.lastUpdated = req'[r].resp.lastUpdated
                      /\ cache'[key].expiry = now' + 300000
          /\ IsGetQuote(r) /\ Done(r) => req'[r] = req[r]]_vars

\* A call of each handler whose first attempt failed and whose second
\* obtained a quote.
C21_Witness ==
    \E r1, r2 \in Reqs :
        /\ req[r1].kind = "cmp" /\ Done(r1) /\ req[r1].live # Undef
        /\ req[r1].dispatches = 2 /\ req[r1].writes = 1
        /\ req[r2].kind = "cmpOpt" /\ Done(r2) /\ req[r2].live # Undef
        /\ req[r2].dispatches = 2 /\ req[r2].writes = 1

\* The upstream answered the adapter request with HTTP 429.
Answered429(q) == q.upstream.kind = "http" /\ q.upstream.status = 429

(***************************************************************************)
(* C22.  When the upstream answers 429 the adapter waits 5 s and then      *)
(* answers a failure: the wait is set to end 5 s after the 429, the call   *)
(* is not resumed before that and is resumed only to answer, and it has    *)
(* dispatched exactly one upstream request (no adapter call ever           *)
(* dispatches a second one).                                               *)
(***************************************************************************)
C22_CooldownThenFailure ==
    /\ [](\A r \in Reqs :
             req[r].kind = "yahoo"
                => /\ req[r].dispatches <= 1
                   /\ Answered429(req[r]) /\ Done(r)
                         => /\ req[r].dispatches = 1
                            /\ ~Ok(req[r].resp)
                            /\ req[r].resp.error # Undefined
                            /\ req[r].resp.price = Undef)
    /\ [][\A r \in Reqs :
             req'[r].kind = "yahoo"
                => /\ req[r].pc # "cooldown429" /\ req'[r].pc = "cooldown429"
                         => req'[r].wakeAt = now' + 5000
                   /\ req[r].pc = "cooldown429" /\ req'[r] # req[r]
                         => now' >= req[r].wakeAt /\ req'[r].pc = "done"]_vars

\* An adapter call answered 429 to its caller, 5 s or more after its dispatch.
C22_Witness ==
    \E r \in Reqs :
        /\ req[r].kind = "yahoo" /\ Done(r) /\ Answered429(req[r])
        /\ req[r].resp.status = 429
        /\ now >= req[r].dispatchedAt + 5000

(***************************************************************************)
(* C23.  An adapter call cannot stay pending forever: once its upstream    *)
(* request is dispatched the call ends with a response, by the 10 s        *)
(* timeout if the upstream never answers, whether the upstream stalls      *)
(* before the response headers or while the body is being read.            *)
(***************************************************************************)
C23_TimeoutEndsCall ==
    \A r \in Reqs : (req[r].kind = "yahoo" /\ InFlight(req[r])) ~> Done(r)

(***************************************************************************)
(* C24.  The rate limiter grants its slots in arrival order: of two        *)
(* adapter requests, once the one that made its rate-limit check second    *)
(* has dispatched, the one that made it first has dispatched before it.    *)
(***************************************************************************)
C24_ArrivalOrder ==
    \A a, b \in Reqs :
        /\ a \in Earlier(b)
        /\ req[a].kind = "yahoo" /\ req[a].symbol # ""
        /\ req[b].kind = "yahoo" /\ req[b].dispatches > 0
        => /\ req[a].dispatches > 0
           /\ req[a].dispatchSeq < req[b].dispatchSeq

RetryDelayOf(q) == IF q.kind = "cmp" THEN CMP_RETRY_DELAY ELSE OPT_RETRY_DELAY

(***************************************************************************)
(* C26.  Retry backoff of a getQuote call: attempt 0 is dispatched in the  *)
(* step that enters the handler, with no wait; before attempt k > 0 the    *)
(* call waits k x RETRY_DELAY, the attempts being numbered one by one, so  *)
(* each wait is strictly larger than the one before; and attempt k > 0 is  *)
(* dispatched only out of that wait, not before it has elapsed.            *)
(***************************************************************************)
C26_RetryBackoff ==
    [][\A r \in Reqs :
          IsGetQuote(r)'
             => /\ req'[r].dispatches > req[r].dispatches /\ req'[r].attempt = 0
                      => req[r].pc = "idle"
                /\ req[r].pc # "backoff" /\ req'[r].pc = "backoff"
                      => /\ req'[r].attempt = req[r].attempt + 1
                         /\ req'[r].wakeAt = now' + req'[r].attempt * RetryDelayOf(req'[r])
                         /\ req'[r].wakeAt - now' > req[r].attempt * RetryDelayOf(req'[r])
                /\ req'[r].dispatches > req[r].dispatches /\ req'[r].attempt > 0
                      => /\ req[r].pc = "backoff"
                         /\ req'[r].attempt = req[r].attempt
                         /\ req'[r].dispatches = req[r].dispatches + 1
                         /\ now' >= req[r].wakeAt]_vars

\* Attempt 2 of a call dispatched, 2000 + 4000 ms or more after the call began.
C26_Witness ==
    \E r \in Reqs :
        /\ req[r].kind = "cmp" /\ req[r].pc = "fetch"
        /\ req[r].attempt = 2 /\ req[r].dispatches = 3
        /\ now >= req[r].startedAt + 3 * CMP_RETRY_DELAY

\* A getQuote or historical call, and the cache key it works under.
QuoteOrHistorical(q) == q.kind \in GetQuoteKinds \cup {"historical"}

KeyOf(q) ==
    IF q.kind = "historical" THEN <<"historical", q.symbol, q.range>>
    ELSE <<"price", q.symbol>>

\* The call ended in an error, or answered from the cache.
EndedWithoutLive(r) ==
    /\ QuoteOrHistorical(req[r])
    /\ Done(r)
    /\ (~Ok(req[r].resp) \/ req[r].resp.cached)

\* Some key has a new or a different item in d.
AddsOrOverwrites(c, d) ==
    \E k \in DOMAIN d : k \notin DOMAIN c \/ d[k] # c[k]

(***************************************************************************)
(* C27.  A getQuote or historical call that ends in an error or answers    *)
(* from the cache has made no cache write: a step of such a call that adds *)
(* or overwrites an entry is the step in which it answers a live result,   *)
(* and any other step of it leaves the cache as it was, except that the    *)
(* step entering the handler may remove the expired entry of its own key.  *)
(***************************************************************************)
C27_NoWriteOnFailure ==
    /\ [](\A r \in Reqs : EndedWithoutLive(r) => req[r].writes = 0)
    /\ [][\A r \in Reqs :
             QuoteOrHistorical(req'[r]) /\ req'[r] # req[r]
                => /\ AddsOrOverwrites(cache, cache')
                         => /\ Done(r)' /\ Ok(req'[r].resp) /\ ~req'[r].resp.cached
                            /\ req'[r].writes = req[r].writes + 1
                   /\ req'[r].writes # req[r].writes
                         => Done(r)' /\ Ok(req'[r].resp) /\ ~req'[r].resp.cached
                   /\ req'[r].writes = req[r].writes
                         => \/ cache' = cache
                            \/ LET key == KeyOf(req'[r])
                               IN /\ req[r].pc = "idle"
                                  /\ key \in DOMAIN cache
                                  /\ now > cache[key].expiry
                                  /\ cache' = [k \in DOMAIN cache \ {key} |->
                                                 cache[k]]]_vars

\* A getQuote call found an expired entry, fetched in vain and ended in an
\* error: its read removed the entry and nothing was written in its place.
C27_Witness ==
    \E r \in Reqs :
        /\ EndedWithoutLive(r) /\ IsGetQuote(r) /\ ~Ok(req[r].resp)
        /\ req[r].dispatches > 0 /\ req[r].writes = 0
        /\ req[r].entryAtStart # NoItem
        /\ Expired(req[r].entryAtStart, req[r].startedAt)
        /\ KeyOf(req[r]) \notin DOMAIN cache

(***************************************************************************)
(* C28.  Cache freshness is monotonic per symbol: when a getQuote call     *)
(* stores its quote under price:<symbol> over the quote another call       *)
(* stored there, its quote was not fetched from the upstream earlier than  *)
(* the one it replaces, whatever the interleaving of the two calls.        *)
(***************************************************************************)
C28_FreshnessMonotonic ==
    [][\A a, b \in Reqs :
          LET key == <<"price", req'[a].symbol>> IN
          /\ a # b
          /\ IsGetQuote(a)' /\ req'[a].writes > req[a].writes
          /\ IsGetQuote(b) /\ req[b].writes > 0
          /\ key \in DOMAIN cache
          /\ cache[key].data.lastUpdated = req[b].resp.lastUpdated
          => req'[a].fetchedAt >= req[b].fetchedAt]_vars

(***************************************************************************)
(* C29.  Dashboard error recovery: once a refresh that began with the      *)
(* error state set (an earlier refresh had failed) has succeeded, every    *)
(* request of it answered, the error state is cleared, so that the table   *)
(* is rendered and not the error banner.                                   *)
(***************************************************************************)
C29_ErrorRecovery ==
    /\ dash.pc = "idle" /\ dash.completed /\ dash.errorBefore # "null"
    /\ \A h \in Holdings : HoldingSucceeded(h)
    => dash.error = "null"

\* The requests of holding h have been sent in the current refresh.
Sent(h) == dash.pc = "prices" /\ dash.hold[h].pc \in {"fetch", "done"}

(***************************************************************************)
(* C30.  In a refresh the requests of successive holdings are 500 ms       *)
(* apart: those of holding i+1 are sent no sooner than 500 ms after those  *)
(* of holding i.                                                           *)
(***************************************************************************)
C30_HoldingsSpaced ==
    \A h \in Holdings :
        h + 1 \in Holdings /\ Sent(h) /\ Sent(h + 1)
            => dash.hold[h + 1].sentAt >= dash.hold[h].sentAt + HOLDING_DELAY

====
